---- MODULE Spec2Model ----
(***************************************************************************)
(* Model of rabi_plan_processor.py: main() reads Sheet 1, derives one      *)
(* progress record per row with a non-empty State (generate_sheet2_data),  *)
(* converts the records to JSON (convert_to_json), writes the artifact and *)
(* prints a preview.                                                       *)
(*                                                                         *)
(* Python values are records [ty, num, den, s]: ty is the Python type      *)
(* name, num/den the numeric value as a fraction (den > 0), s the text of  *)
(* a str as a sequence of one-character strings.  A pandas Timestamp keeps *)
(* its day number (0 = 1 January of the sheet's year) in num.              *)
(***************************************************************************)
EXTENDS Integers, Sequences, FiniteSets

\* ---------------------------------------------------------------- bounds
MaxStateLen == 2      \* longest State text
MaxTargetLen == 2     \* longest text in the target-count cell
MaxDay == 2           \* latest day number of a date cell read as Timestamp
MaxNow == 3           \* latest day number of the "now" snapshot
MaxRows == 4          \* most rows of Sheet 1 in a full run
MaxTargetInt == 1     \* largest target-count cell read as an integer

\* ------------------------------------------------------- Python values
PyVal(ty, num, den, s) == [ty |-> ty, num |-> num, den |-> den, s |-> s]
NaN == PyVal("nan", 0, 1, <<>>)                 \* float('nan'): an empty cell
PyNone == PyVal("NoneType", 0, 1, <<>>)
PyStr(s) == PyVal("str", 0, 1, s)
PyInt(n) == PyVal("int", n, 1, <<>>)
PyFloat(n, d) == PyVal("float", n, d, <<>>)
NpInt64(n) == PyVal("numpy.int64", n, 1, <<>>)
Timestamp(day) == PyVal("Timestamp", day, 1, <<>>)

IsNumber(v) == v.ty \in {"int", "float", "numpy.int64", "numpy.float64"}

\* pd.isna on a scalar
IsNa(v) == v.ty \in {"nan", "NoneType"}

\* isinstance(v, int): numpy.int64 is not a subclass of int
IsInstanceInt(v) == v.ty = "int"

\* isinstance(v, float): numpy.float64 is a subclass of float
IsInstanceFloat(v) == v.ty \in {"float", "numpy.float64"}

\* truth value of start_date_parsed / end_date_parsed
Truthy(v) == v.ty # "NoneType"

\* ------------------------------------------------------------- strings
Digits == <<"0", "1", "2", "3", "4", "5", "6", "7", "8", "9">>
IsDigit(c) == \E i \in 1..10 : Digits[i] = c
DigitVal(c) == (CHOOSE i \in 1..10 : Digits[i] = c) - 1
Whitespace == {" "}

RECURSIVE NatToStr(_)
NatToStr(n) == IF n < 10 THEN <<Digits[n + 1]>>
               ELSE NatToStr(n \div 10) \o <<Digits[(n % 10) + 1]>>

\* str(int)
IntToStr(n) == IF n < 0 THEN <<"-">> \o NatToStr(0 - n) ELSE NatToStr(n)

RECURSIVE LStrip(_)
LStrip(s) == IF s # <<>> /\ Head(s) \in Whitespace THEN LStrip(Tail(s)) ELSE s

RECURSIVE RStrip(_)
RStrip(s) == IF s # <<>> /\ s[Len(s)] \in Whitespace
             THEN RStrip(SubSeq(s, 1, Len(s) - 1)) ELSE s

\* str.strip()
Strip(s) == RStrip(LStrip(s))

\* str.replace(old, '') for a one-character old
RECURSIVE Remove(_, _)
Remove(s, c) == IF s = <<>> THEN <<>>
                ELSE IF Head(s) = c THEN Remove(Tail(s), c)
                ELSE <<Head(s)>> \o Remove(Tail(s), c)

RECURSIVE DigitsToNat(_)
DigitsToNat(s) == IF s = <<>> THEN 0
                  ELSE DigitsToNat(SubSeq(s, 1, Len(s) - 1)) * 10 + DigitVal(s[Len(s)])

RECURSIVE Pow10(_)
Pow10(k) == IF k = 0 THEN 1 ELSE 10 * Pow10(k - 1)

AllDigits(s) == \A i \in 1..Len(s) : IsDigit(s[i])

\* str(v) for the values a cell can hold
Str(v) == IF v.ty = "str" THEN v.s
          ELSE IF v.ty = "nan" THEN <<"n", "a", "n">>
          ELSE IntToStr(v.num)

\* ------------------------------------------------------------- numbers
RECURSIVE Gcd(_, _)
Gcd(a, b) == IF b = 0 THEN a ELSE Gcd(b, a % b)

Abs(n) == IF n < 0 THEN 0 - n ELSE n

\* a number of type ty with value num/den in lowest terms
Num(ty, num, den) ==
    LET g == Gcd(Abs(num), den)
    IN  PyVal(ty, num \div g, den \div g, <<>>)

IsNumpy(v) == v.ty \in {"numpy.int64", "numpy.float64"}
IsFloating(v) == v.ty \in {"float", "numpy.float64"}

\* type of a / b (true division always gives a float)
DivType(a, b) == IF IsNumpy(a) \/ IsNumpy(b) THEN "numpy.float64" ELSE "float"

\* type of a - b and a * b
ArithType(a, b) ==
    IF IsFloating(a) \/ IsFloating(b)
    THEN (IF IsNumpy(a) \/ IsNumpy(b) THEN "numpy.float64" ELSE "float")
    ELSE (IF IsNumpy(a) \/ IsNumpy(b) THEN "numpy.int64" ELSE "int")

\* the outcome of an expression that raised ZeroDivisionError
ZeroDivisionError == PyVal("ZeroDivisionError", 0, 1, <<>>)
IsError(v) == v.ty = "ZeroDivisionError"

\* a / b: two Python numbers raise on a zero divisor; with a numpy operand
\* the quotient is inf or nan (den = 0) and only a warning is given
TrueDiv(a, b) ==
    IF IsError(a) \/ IsError(b) THEN ZeroDivisionError
    ELSE IF b.num = 0
    THEN (IF IsNumpy(a) \/ IsNumpy(b)
          THEN PyVal("numpy.float64", (IF a.num > 0 THEN 1 ELSE IF a.num < 0 THEN -1 ELSE 0),
                     0, <<>>)
          ELSE ZeroDivisionError)
    ELSE Num(DivType(a, b), a.num * b.den, a.den * b.num)

Mul(a, b) ==
    IF IsError(a) \/ IsError(b) THEN ZeroDivisionError
    ELSE IF a.den = 0 \/ b.den = 0 THEN PyVal(ArithType(a, b), a.num * b.num, 0, <<>>)
    ELSE Num(ArithType(a, b), a.num * b.num, a.den * b.den)

Sub(a, b) ==
    IF IsError(a) \/ IsError(b) THEN ZeroDivisionError
    ELSE IF a.den = 0 \/ b.den = 0
    THEN PyVal(ArithType(a, b), (IF b.den = 0 THEN 0 - b.num ELSE a.num), 0, <<>>)
    ELSE Num(ArithType(a, b), a.num * b.den - b.num * a.den, a.den * b.den)
Gt0(a) == a.num > 0
Ge0(a) == a.num >= 0

\* |num/den| rounded to a whole number of tenths.  An exact decimal tie is
\* settled by the binary double the interpreter holds (Python's round and
\* numpy's differ there), so the caller supplies the direction tieUp.
RoundTenths(num, den, tieUp) ==
    LET q == 10 * Abs(num)
        f == q \div den
        r == q % den
    IN  IF 2 * r < den THEN f
        ELSE IF 2 * r > den THEN f + 1
        ELSE IF tieUp THEN f + 1 ELSE f

\* round(v, 1): an int stays the same int, a float keeps its float type
Round1(v, tieUp) ==
    IF ~IsFloating(v) \/ v.den = 0 THEN v
    ELSE Num(v.ty, (IF v.num < 0 THEN -1 ELSE 1) * RoundTenths(v.num, v.den, tieUp), 10)

\* f"{v:.1f}"
FormatF1(v, tieUp) ==
    IF v.den = 0
    THEN (IF v.num < 0 THEN <<"-">> ELSE <<>>) \o (IF v.num = 0 THEN <<"nan">> ELSE <<"inf">>)
    ELSE LET t == RoundTenths(v.num, v.den, tieUp)
         IN  (IF v.num < 0 THEN <<"-">> ELSE <<>>)
             \o NatToStr(t \div 10) \o <<".", Digits[(t % 10) + 1]>>

\* pd.to_numeric(s, errors='coerce') on a string: whole digits give a
\* numpy.int64, digits with one decimal point a numpy.float64, anything
\* else (including 'nan' and '') NaN
DotPositions(s) == {i \in 1..Len(s) : s[i] = "."}
ToNumeric(s) ==
    IF s # <<>> /\ AllDigits(s) THEN NpInt64(DigitsToNat(s))
    ELSE IF Cardinality(DotPositions(s)) = 1 /\ Len(s) > 1
            /\ AllDigits(Remove(s, "."))
    THEN LET p == CHOOSE i \in DotPositions(s) : TRUE
         IN  Num("numpy.float64", DigitsToNat(Remove(s, ".")), Pow10(Len(s) - p))
    ELSE NaN

\* --------------------------------------------------------------- dates
\* days before the first of each month (a non-leap year)
CumDays == <<0, 31, 59, 90, 120, 151, 181, 212, 243, 273, 304, 334, 365>>

\* pd.to_datetime(v, dayfirst=True) as [ok, v]: a Timestamp passes through,
\* the text "D/M" is day D of month M, any other text raises
ToDatetime(v) ==
    IF v.ty = "Timestamp" THEN [ok |-> TRUE, v |-> v]
    ELSE IF /\ Len(v.s) = 3 /\ v.s[2] = "/"
            /\ IsDigit(v.s[1]) /\ IsDigit(v.s[3])
            /\ DigitVal(v.s[3]) >= 1
            /\ DigitVal(v.s[1]) >= 1
            /\ DigitVal(v.s[1]) <= CumDays[DigitVal(v.s[3]) + 1] - CumDays[DigitVal(v.s[3])]
    THEN [ok |-> TRUE,
          v |-> Timestamp(CumDays[DigitVal(v.s[3])] + DigitVal(v.s[1]) - 1)]
    ELSE [ok |-> FALSE, v |-> PyNone]

TwoDigits(n) == <<Digits[(n \div 10) + 1], Digits[(n % 10) + 1]>>

\* Timestamp.strftime('%Y-%m-%d %H:%M:%S') of a date at midnight
StrfTime(day) ==
    LET m == CHOOSE k \in 1..12 : CumDays[k] <= day /\ day < CumDays[k + 1]
    IN  <<"2", "0", "2", "6", "-">> \o TwoDigits(m) \o <<"-">>
        \o TwoDigits(day - CumDays[m] + 1)
        \o <<" ", "0", "0", ":", "0", "0", ":", "0", "0">>

\* ------------------------------------------------ generate_sheet2_data
Keys == {"a", "b", "c", "d", "e", "days", "Total Days", "Days Elapsed",
         "Required /day", "Actual /day", "Required % (Time elapsed)",
         "Actual % (Survey done)", "Gap"}

PosGlyph == "[check-mark]"
NegGlyph == "[down-triangle]"

\* the skip test without strip(): a blank State is not skipped
SkipRow_NoStrip(row) == IsNa(row.State) \/ Str(row.State) = <<>>

\* the skip test of the loop: State is NaN, or empty after strip()
SkipRow(row) == IsNa(row.State) \/ Strip(Str(row.State)) = <<>>

\* the numeric conversion without the NaN check
PlotsTargeted_NoNaCheck(cell) == ToNumeric(Remove(Str(cell), ","))

\* plots_targeted after the numeric conversion
PlotsTargeted(cell) ==
    LET n == ToNumeric(Remove(Str(cell), ","))
    IN  IF IsNa(n) THEN PyInt(0) ELSE n

\* <<start_date_parsed, end_date_parsed>>: one try block covers both
\* conversions, so a failure of either leaves both None
ParseDates(start_date, end_date) ==
    LET sp == IF ~IsNa(start_date) THEN ToDatetime(start_date)
              ELSE [ok |-> TRUE, v |-> PyNone]
        ep == IF ~IsNa(end_date) THEN ToDatetime(end_date)
              ELSE [ok |-> TRUE, v |-> PyNone]
    IN  IF sp.ok /\ ep.ok THEN <<sp.v, ep.v>> ELSE <<PyNone, PyNone>>

Min(a, b) == IF b < a THEN b ELSE a
Max(a, b) == IF b > a THEN b ELSE a

\* the clamp without its upper limit
CalcDays_NoUpperClamp(sp, ep, now) ==
    IF Truthy(sp) /\ Truthy(ep)
    THEN <<ep.num - sp.num, Max(0, now - sp.num)>>
    ELSE <<0, 0>>

\* the clamp applied in the other order: min(max(0, d), total_days)
CalcDays_MinLast(sp, ep, now) ==
    IF Truthy(sp) /\ Truthy(ep)
    THEN <<ep.num - sp.num, Min(Max(0, now - sp.num), ep.num - sp.num)>>
    ELSE <<0, 0>>

\* the day arithmetic done as soon as the start date is there, a missing
\* end date counting as day 0
CalcDays_StartOnly(sp, ep, now) ==
    IF Truthy(sp)
    THEN <<ep.num - sp.num, Max(0, Min(now - sp.num, ep.num - sp.num))>>
    ELSE <<0, 0>>

\* <<total_days, days_elapsed>>
CalcDays(sp, ep, now) ==
    IF Truthy(sp) /\ Truthy(ep)
    THEN LET total_days == ep.num - sp.num
             days_elapsed == now - sp.num
         IN  <<total_days, Max(0, Min(days_elapsed, total_days))>>
    ELSE <<0, 0>>

RequiredPerDay(plots_targeted, total_days) ==
    IF total_days > 0 THEN TrueDiv(plots_targeted, PyInt(total_days)) ELSE PyInt(0)

ActualPerDay(total_plots_surveyed, days_elapsed) ==
    IF days_elapsed > 0 THEN TrueDiv(total_plots_surveyed, PyInt(days_elapsed))
    ELSE PyInt(0)

\* the guard written total_days >= 0
RequiredPercentage_GuardGe(days_elapsed, total_days) ==
    IF total_days >= 0
    THEN Mul(TrueDiv(PyInt(days_elapsed), PyInt(total_days)), PyInt(100))
    ELSE PyInt(0)

RequiredPercentage(days_elapsed, total_days) ==
    IF total_days > 0
    THEN Mul(TrueDiv(PyInt(days_elapsed), PyInt(total_days)), PyInt(100))
    ELSE PyInt(0)

ActualPercentage(total_plots_surveyed, plots_targeted) ==
    IF Gt0(plots_targeted)
    THEN Mul(TrueDiv(total_plots_surveyed, plots_targeted), PyInt(100))
    ELSE PyInt(0)

\* the positive label only for gap > 0
GapFormatted_Strict(gap, tieUp) ==
    IF Gt0(gap)
    THEN <<PosGlyph, " ", "+">> \o FormatF1(gap, tieUp) \o <<"%">>
    ELSE <<NegGlyph>> \o FormatF1(gap, tieUp) \o <<"%">>

GapFormatted(gap, tieUp) ==
    IF Ge0(gap)
    THEN <<PosGlyph, " ", "+">> \o FormatF1(gap, tieUp) \o <<"%">>
    ELSE <<NegGlyph>> \o FormatF1(gap, tieUp) \o <<"%">>

\* the locals the loop body computes for a row that is not skipped
RowLocals(row, now) ==
    LET plots_targeted == PlotsTargeted(row.Target)
        parsed == ParseDates(row.Start, row.End)
        total_plots_surveyed == PyInt(0)
        days == CalcDays(parsed[1], parsed[2], now)
        total_days == days[1]
        days_elapsed == days[2]
        required_percentage == RequiredPercentage(days_elapsed, total_days)
        actual_percentage == ActualPercentage(total_plots_surveyed, plots_targeted)
    IN  [plots_targeted |-> plots_targeted,
         total_plots_surveyed |-> total_plots_surveyed,
         start_date_parsed |-> parsed[1],
         end_date_parsed |-> parsed[2],
         total_days |-> total_days,
         days_elapsed |-> days_elapsed,
         required_per_day |-> RequiredPerDay(plots_targeted, total_days),
         actual_per_day |-> ActualPerDay(total_plots_surveyed, days_elapsed),
         required_percentage |-> required_percentage,
         actual_percentage |-> actual_percentage,
         gap |-> Sub(actual_percentage, required_percentage)]

\* the sheet2_row the loop body appends.  ties gives the direction of the
\* three roundings (Required /day, Required %, the Gap text) at an exact
\* tie; the two Actual fields are an exact zero.
Sheet2Row(row, loc, ties) ==
    [k \in Keys |->
        CASE k = "a" -> row.State
          [] k = "b" -> loc.plots_targeted
          [] k = "c" -> loc.total_plots_surveyed
          [] k = "d" -> row.Start
          [] k = "e" -> row.End
          [] k = "days" -> PyInt(loc.days_elapsed)
          [] k = "Total Days" -> PyInt(loc.total_days)
          [] k = "Days Elapsed" -> PyInt(loc.days_elapsed)
          [] k = "Required /day" -> Round1(loc.required_per_day, ties[1])
          [] k = "Actual /day" -> Round1(loc.actual_per_day, FALSE)
          [] k = "Required % (Time elapsed)" -> Round1(loc.required_percentage, ties[2])
          [] k = "Actual % (Survey done)" -> Round1(loc.actual_percentage, FALSE)
          [] k = "Gap" -> PyStr(GapFormatted(loc.gap, ties[3]))]

\* ----------------------------------------------------- convert_to_json
\* convert_types: the value handed to json.dumps
ConvertTypes(obj) ==
    IF IsNa(obj) THEN PyNone
    ELSE IF obj.ty = "Timestamp" THEN PyStr(StrfTime(obj.num))
    ELSE IF IsInstanceInt(obj) THEN PyInt(obj.num)
    ELSE IF IsInstanceFloat(obj) THEN PyFloat(obj.num, obj.den)
    ELSE PyStr(Str(obj))

\* JSON tokens: null, a string, an integer literal, a literal with a
\* fraction part
JToken(j, num, den, s) == [j |-> j, num |-> num, den |-> den, s |-> s]

\* json.dumps of a native value
Dumps(v) ==
    IF v.ty = "NoneType" THEN JToken("null", 0, 1, <<>>)
    ELSE IF v.ty = "str" THEN JToken("string", 0, 1, v.s)
    ELSE IF v.ty = "int" THEN JToken("integer", v.num, 1, <<>>)
    ELSE JToken("real", v.num, v.den, <<>>)

\* json.loads of a token
Loads(t) ==
    IF t.j = "null" THEN PyNone
    ELSE IF t.j = "string" THEN PyStr(t.s)
    ELSE IF t.j = "integer" THEN PyInt(t.num)
    ELSE PyFloat(t.num, t.den)

\* convert_to_json(data): the JSON array, one object per row
ConvertToJson(data) ==
    [i \in 1..Len(data) |-> [k \in Keys |-> Dumps(ConvertTypes(data[i][k]))]]

\* json.loads(json_output)
LoadsDoc(doc) == [i \in 1..Len(doc) |-> [k \in Keys |-> Loads(doc[i][k])]]

\* json.dumps of a list of row dicts
DumpsDoc(rows) == [i \in 1..Len(rows) |-> [k \in Keys |-> Dumps(rows[i][k])]]

\* data_list[:3] if len(data_list) > 3 else data_list
Preview(data_list) ==
    IF Len(data_list) > 3 THEN SubSeq(data_list, 1, 3) ELSE data_list

\* --------------------------------------------------------------- inputs
Strings(chars, n) == UNION {[1..k -> chars] : k \in 0..n}

StateChars == {" ", "B"}
TargetChars == {"1", ",", ".", "a"}
DateTexts == {<<"1", "/", "2">>, <<"2", "/", "1">>, <<"x">>}

StateCells == {NaN} \cup {PyStr(s) : s \in Strings(StateChars, MaxStateLen)}
TargetCells == {NaN} \cup {PyStr(s) : s \in Strings(TargetChars, MaxTargetLen)}
               \cup {PyInt(n) : n \in 0..MaxTargetInt}
DateCells == {NaN} \cup {Timestamp(d) : d \in 0..MaxDay} \cup {PyStr(s) : s \in DateTexts}
Nows == 0..MaxNow

SourceRow(state, target, start, end) ==
    [State |-> state, Target |-> target, Start |-> start, End |-> end]

\* every row over the cell sets: the inputs of the per-row calculation
CalcRows == {SourceRow(st, tg, sd, ed) :
                st \in StateCells, tg \in TargetCells, sd \in DateCells, ed \in DateCells}

\* the rows of the sheets of a full run
MainRows == {SourceRow(NaN, PyInt(1), Timestamp(0), Timestamp(MaxDay)),
             SourceRow(PyStr(<<>>), PyStr(<<"1">>), NaN, Timestamp(0)),
             SourceRow(PyStr(<<" ">>), PyStr(<<"1">>), Timestamp(0), Timestamp(0)),
             SourceRow(PyStr(<<"B">>), PyStr(<<"1", ",", "1">>), Timestamp(0), Timestamp(MaxDay)),
             SourceRow(PyStr(<<" ", "B">>), PyStr(<<"a">>), PyStr(<<"x">>), NaN)}
MainTables == Strings(MainRows, MaxRows)

\* ---------------------------------------------------------------- state
VARIABLES
    pc,            \* position of main()
    file_exists,   \* Path(excel_file).exists()
    loader,        \* how read_excel_sheet1 ended
    sheet1_df,     \* [isNone, rows]: the table read from Sheet 1
    current_date,  \* day number of pd.Timestamp.now() taken by generate_sheet2_data
    index,         \* position of the iterrows() loop (1-based)
    sheet2_data,   \* the list of sheet2_row dicts
    locals,        \* for each appended sheet2_row: its row index and loop locals
    json_output,   \* [isNone, doc]: the result of convert_to_json
    out_file,      \* [opened, written]: what happened to sheet2_data.json
    preview,       \* [printed, doc]: the preview printed at the end
    stdout         \* the messages printed, in order

vars == <<pc, file_exists, loader, sheet1_df, current_date, index, sheet2_data,
          locals, json_output, out_file, preview, stdout>>

NoTable == [isNone |-> TRUE, rows |-> <<>>]
NoJson == [isNone |-> TRUE, doc |-> <<>>]

InitRest ==
    /\ current_date = 0
    /\ index = 1
    /\ sheet2_data = <<>>
    /\ locals = <<>>
    /\ json_output = NoJson
    /\ out_file = [opened |-> FALSE, written |-> "nothing"]
    /\ preview = [printed |-> FALSE, doc |-> <<>>]
    /\ stdout = <<>>

\* main() is entered; the input file is there or not
Init ==
    /\ pc = "main"
    /\ file_exists \in BOOLEAN
    /\ loader = "not called"
    /\ sheet1_df = NoTable
    /\ InitRest

\* generate_sheet2_data is called on a one-row table
InitCalc ==
    /\ pc = "generate"
    /\ file_exists = TRUE
    /\ loader = "ok"
    /\ sheet1_df \in {[isNone |-> FALSE, rows |-> <<r>>] : r \in CalcRows}
    /\ InitRest

\* -------------------------------------------------------------- actions
Emit(msgs) == stdout' = stdout \o msgs

\* main: the input file is absent
MainFileMissing ==
    /\ pc = "main"
    /\ ~file_exists
    /\ Emit(<<"Error: 'Rabi_Plan_Sheet1.xlsx' not found in current directory.",
               "Please ensure the file is in the same directory as this script.">>)
    /\ pc' = "done"
    /\ UNCHANGED <<file_exists, loader, sheet1_df, current_date, index, sheet2_data,
                   locals, json_output, out_file, preview>>

\* main: the input file is there
MainFileFound ==
    /\ pc = "main"
    /\ file_exists
    /\ Emit(<<"Reading Sheet1 from Rabi_Plan_Sheet1.xlsx...">>)
    /\ pc' = "read"
    /\ UNCHANGED <<file_exists, loader, sheet1_df, current_date, index, sheet2_data,
                   locals, json_output, out_file, preview>>

\* read_excel_sheet1 returns a table (after any re-heading); main goes on
ReadExcelOk ==
    /\ pc = "read"
    /\ \E rows \in MainTables : sheet1_df' = [isNone |-> FALSE, rows |-> rows]
    /\ loader' = "ok"
    /\ Emit(<<"Sheet1 loaded successfully", "Generating Sheet2 data with calculations...">>)
    /\ pc' = "generate"
    /\ UNCHANGED <<file_exists, current_date, index, sheet2_data, locals, json_output,
                   out_file, preview>>

\* the loader fails and main goes on to generate_sheet2_data
ReadExcelFails_NoReturn ==
    /\ pc = "read"
    /\ \E e \in {"FileNotFoundError", "Exception"} :
          /\ loader' = e
          /\ Emit(<<IF e = "FileNotFoundError"
                     THEN "Error: File 'Rabi_Plan_Sheet1.xlsx' not found."
                     ELSE "Error reading Excel file">>)
    /\ sheet1_df' = NoTable
    /\ pc' = "generate"
    /\ UNCHANGED <<file_exists, current_date, index, sheet2_data, locals, json_output,
                   out_file, preview>>

\* read_excel_sheet1 catches an exception, prints it and returns None;
\* main returns
ReadExcelFails ==
    /\ pc = "read"
    /\ \E e \in {"FileNotFoundError", "Exception"} :
          /\ loader' = e
          /\ Emit(<<IF e = "FileNotFoundError"
                      THEN "Error: File 'Rabi_Plan_Sheet1.xlsx' not found."
                      ELSE "Error reading Excel file">>)
    /\ sheet1_df' = NoTable
    /\ pc' = "done"
    /\ UNCHANGED <<file_exists, current_date, index, sheet2_data, locals, json_output,
                   out_file, preview>>

\* generate_sheet2_data up to the loop: the empty list and the snapshot of now
GenerateBegin ==
    /\ pc = "generate"
    /\ sheet2_data' = <<>>
    /\ locals' = <<>>
    /\ current_date' \in Nows
    /\ index' = 1
    /\ pc' = "loop"
    /\ UNCHANGED <<file_exists, loader, sheet1_df, json_output, out_file, preview, stdout>>

\* one iteration on a row whose State is NaN or blank: continue
GenerateSkip ==
    /\ pc = "loop"
    /\ index <= Len(sheet1_df.rows)
    /\ SkipRow(sheet1_df.rows[index])
    /\ index' = index + 1
    /\ UNCHANGED <<pc, file_exists, loader, sheet1_df, current_date, sheet2_data, locals,
                   json_output, out_file, preview, stdout>>

\* one iteration on any other row: compute the locals and append the
\* sheet2_row; a ZeroDivisionError would leave main() uncaught
GenerateAppend ==
    /\ pc = "loop"
    /\ index <= Len(sheet1_df.rows)
    /\ ~SkipRow(sheet1_df.rows[index])
    /\ LET row == sheet1_df.rows[index]
           loc == RowLocals(row, current_date)
       IN  IF \/ IsError(loc.required_per_day) \/ IsError(loc.actual_per_day)
              \/ IsError(loc.required_percentage) \/ IsError(loc.actual_percentage)
           THEN /\ pc' = "raised"
                /\ UNCHANGED <<index, sheet2_data, locals>>
           ELSE /\ \E ties \in [1..3 -> BOOLEAN] :
                      sheet2_data' = Append(sheet2_data, Sheet2Row(row, loc, ties))
                /\ locals' = Append(locals, [index |-> index, loc |-> loc])
                /\ index' = index + 1
                /\ pc' = pc
    /\ UNCHANGED <<file_exists, loader, sheet1_df, current_date, json_output, out_file,
                   preview, stdout>>

\* the loop is over: generate_sheet2_data returns the list to main
GenerateReturn ==
    /\ pc = "loop"
    /\ index > Len(sheet1_df.rows)
    /\ Emit(<<"Generated rows for Sheet2.", "Converting to JSON format...">>)
    /\ pc' = "convert"
    /\ UNCHANGED <<file_exists, loader, sheet1_df, current_date, index, sheet2_data,
                   locals, json_output, out_file, preview>>

\* json_output = convert_to_json(sheet2_data)
Convert ==
    /\ pc = "convert"
    /\ json_output' = [isNone |-> FALSE, doc |-> ConvertToJson(sheet2_data)]
    /\ pc' = "write"
    /\ UNCHANGED <<file_exists, loader, sheet1_df, current_date, index, sheet2_data,
                   locals, out_file, preview, stdout>>

ColumnMapping == <<"Column Mapping:", "a = State",
                   "b = No. of Plots Targeted for Rabi DCS",
                   "c = Total Plots Surveyed (currently set to 0)",
                   "d = Rabi DCS Activity Start Date",
                   "e = Rabi DCS Activity End Date">>

\* the file is opened and written in full
WriteOk ==
    /\ pc = "write"
    /\ out_file' = [opened |-> TRUE, written |-> "all"]
    /\ Emit(<<"Sheet2 data saved to sheet2_data.json">> \o ColumnMapping)
    /\ pc' = "preview"
    /\ UNCHANGED <<file_exists, loader, sheet1_df, current_date, index, sheet2_data,
                   locals, json_output, preview>>

\* a failed write that ends main after the error message
WriteFails_Return ==
    /\ pc = "write"
    /\ \E opened \in BOOLEAN :
          out_file' = [opened |-> opened, written |-> IF opened THEN "part" ELSE "nothing"]
    /\ Emit(<<"Error saving JSON file">>)
    /\ pc' = "done"
    /\ UNCHANGED <<file_exists, loader, sheet1_df, current_date, index, sheet2_data,
                   locals, json_output, preview>>

\* open() or write() raises: the except branch prints the error and main
\* goes on
WriteFails ==
    /\ pc = "write"
    /\ \E opened \in BOOLEAN :
          out_file' = [opened |-> opened, written |-> IF opened THEN "part" ELSE "nothing"]
    /\ Emit(<<"Error saving JSON file">> \o ColumnMapping)
    /\ pc' = "preview"
    /\ UNCHANGED <<file_exists, loader, sheet1_df, current_date, index, sheet2_data,
                   locals, json_output, preview>>

\* the preview: the first records of json.loads(json_output), dumped again
ShowPreview ==
    /\ pc = "preview"
    /\ preview' = [printed |-> TRUE,
                   doc |-> DumpsDoc(Preview(LoadsDoc(json_output.doc)))]
    /\ Emit(<<"First 3 records of Sheet2 data in JSON format:">>)
    /\ pc' = "done"
    /\ UNCHANGED <<file_exists, loader, sheet1_df, current_date, index, sheet2_data,
                   locals, json_output, out_file>>

Next ==
    \/ MainFileMissing
    \/ MainFileFound
    \/ ReadExcelOk
    \/ ReadExcelFails
    \/ GenerateBegin
    \/ GenerateSkip
    \/ GenerateAppend
    \/ GenerateReturn
    \/ Convert
    \/ WriteOk
    \/ WriteFails
    \/ ShowPreview

Spec == Init /\ [][Next]_vars

\* generate_sheet2_data and convert_to_json applied to one row
NextCalc ==
    \/ GenerateBegin
    \/ GenerateSkip
    \/ GenerateAppend
    \/ GenerateReturn
    \/ Convert

SpecCalc == InitCalc /\ [][NextCalc]_vars

\* ------------------------------------------------------------ properties
Zero(v) == IsNumber(v) /\ v.num = 0 /\ v.den # 0

\* the State cell is present and has a character that is not whitespace
StatePresent(row) ==
    row.State.ty = "str" /\ \E j \in 1..Len(row.State.s) : row.State.s[j] # " "

\* the sheet2_row appended for input row i, as a set (empty when none)
RecordsOf(i) == {j \in 1..Len(locals) : locals[j].index = i}

\* C1: in every record with Total Days > 0, Days Elapsed lies in
\* [0, Total Days] and is (now - start).days clamped into that interval
C1_DaysElapsedClamped ==
    \A i \in 1..Len(sheet2_data) :
        LET rec == sheet2_data[i]
            td == rec["Total Days"].num
            raw == current_date - locals[i].loc.start_date_parsed.num
        IN  td > 0 =>
              /\ 0 <= rec["Days Elapsed"].num
              /\ rec["Days Elapsed"].num <= td
              /\ rec["Days Elapsed"].num
                   = (IF raw < 0 THEN 0 ELSE IF raw > td THEN td ELSE raw)

\* a record whose elapsed days were cut down to Total Days
C1_Witness ==
    \E i \in 1..Len(sheet2_data) :
        /\ sheet2_data[i]["Total Days"].num > 0
        /\ current_date - locals[i].loc.start_date_parsed.num
             > sheet2_data[i]["Total Days"].num
        /\ sheet2_data[i]["Days Elapsed"].num = sheet2_data[i]["Total Days"].num

\* C2: a record with Total Days = 0 has Required /day = 0 and
\* Required % = 0, and no division by zero ends the calculation
C2_ZeroTotalDaysZeroRequired ==
    /\ pc # "raised"
    /\ \A i \in 1..Len(sheet2_data) :
          sheet2_data[i]["Total Days"].num = 0 =>
            /\ Zero(sheet2_data[i]["Required /day"])
            /\ Zero(sheet2_data[i]["Required % (Time elapsed)"])

\* a record for a row whose start and end date are the same day, with a
\* positive target
C2_Witness ==
    \E i \in 1..Len(sheet2_data) :
        /\ sheet2_data[i]["Total Days"].num = 0
        /\ Truthy(locals[i].loc.start_date_parsed)
        /\ Truthy(locals[i].loc.end_date_parsed)
        /\ sheet2_data[i]["b"].num > 0

\* the target cell is absent, or its text without commas is not a number
TargetUnparseable(cell) ==
    \/ cell.ty = "nan"
    \/ /\ cell.ty = "str"
       /\ LET t == SelectSeq(cell.s, LAMBDA c : c # ",")
          IN  \/ \E j \in 1..Len(t) : ~IsDigit(t[j]) /\ t[j] # "."
              \/ ~\E j \in 1..Len(t) : IsDigit(t[j])
              \/ \E j, k \in 1..Len(t) : j # k /\ t[j] = "." /\ t[k] = "."

\* C3: a processed row with a State and an absent or unparseable target
\* cell is emitted with b = 0 and Actual % = 0; every record with b = 0
\* has Actual % = 0; no division error
C3_BadTargetIsZero ==
    /\ pc # "raised"
    /\ \A i \in 1..Len(sheet1_df.rows) :
          (i < index /\ StatePresent(sheet1_df.rows[i])
             /\ TargetUnparseable(sheet1_df.rows[i].Target)) =>
            /\ Cardinality(RecordsOf(i)) = 1
            /\ \A j \in RecordsOf(i) :
                  /\ Zero(sheet2_data[j]["b"])
                  /\ Zero(sheet2_data[j]["Actual % (Survey done)"])
    /\ \A j \in 1..Len(sheet2_data) :
          sheet2_data[j]["b"].num = 0 => Zero(sheet2_data[j]["Actual % (Survey done)"])

\* a record for a row whose target text contains a letter
C3_Witness ==
    \E j \in 1..Len(sheet2_data) :
        LET cell == sheet1_df.rows[locals[j].index].Target
        IN  /\ cell.ty = "str"
            /\ \E k \in 1..Len(cell.s) : cell.s[k] = "a"
            /\ Zero(sheet2_data[j]["b"])

\* the indices up to n of the rows with a State, in order
RECURSIVE KeptRows(_, _)
KeptRows(rows, n) ==
    IF n = 0 THEN <<>>
    ELSE KeptRows(rows, n - 1) \o (IF StatePresent(rows[n]) THEN <<n>> ELSE <<>>)

\* C4: the records are exactly the processed rows with a present, non-blank
\* State, one record each, in input order, never more than the input rows;
\* after the loop every row has been processed
C4_OutputIsFilteredInput ==
    LET rows == sheet1_df.rows
    IN  /\ Len(sheet2_data) = Len(locals)
        /\ Len(sheet2_data) <= Len(rows)
        /\ [j \in 1..Len(locals) |-> locals[j].index] = KeptRows(rows, index - 1)
        /\ \A j \in 1..Len(sheet2_data) :
              /\ sheet2_data[j]["a"] = rows[locals[j].index].State
              /\ sheet2_data[j]["d"] = rows[locals[j].index].Start
              /\ sheet2_data[j]["e"] = rows[locals[j].index].End
        /\ pc \in {"convert", "write", "preview", "done"} /\ loader = "ok"
              => index = Len(rows) + 1
        /\ pc # "raised"

\* a four-row sheet of which the second and the fourth row were kept
C4_Witness ==
    /\ pc = "convert"
    /\ Len(sheet1_df.rows) = 4
    /\ Len(sheet2_data) = 2
    /\ locals[1].index = 2
    /\ locals[2].index = 4
    /\ sheet2_data[1] # sheet2_data[2]

\* the date cell is absent or a text without a day/month separator
DateMissingOrBad(cell) ==
    \/ cell.ty = "nan"
    \/ cell.ty = "str" /\ ~\E j \in 1..Len(cell.s) : cell.s[j] = "/"

\* C5: a processed row with a State whose start or end date is missing or
\* unparseable is emitted with Total Days, Days Elapsed, Required /day and
\* Required % all 0, and without an error
C5_MissingDateIsZero ==
    /\ pc # "raised"
    /\ \A i \in 1..Len(sheet1_df.rows) :
          (i < index /\ StatePresent(sheet1_df.rows[i])
             /\ (DateMissingOrBad(sheet1_df.rows[i].Start)
                   \/ DateMissingOrBad(sheet1_df.rows[i].End))) =>
            /\ Cardinality(RecordsOf(i)) = 1
            /\ \A j \in RecordsOf(i) :
                  /\ sheet2_data[j]["Total Days"] = PyInt(0)
                  /\ sheet2_data[j]["Days Elapsed"] = PyInt(0)
                  /\ Zero(sheet2_data[j]["Required /day"])
                  /\ Zero(sheet2_data[j]["Required % (Time elapsed)"])

\* a record for a row with a start date after day 0, no end date and a
\* positive target
C5_Witness ==
    \E j \in 1..Len(sheet2_data) :
        LET row == sheet1_df.rows[locals[j].index]
        IN  /\ row.Start.ty = "Timestamp"
            /\ row.Start.num > 0
            /\ row.End.ty = "nan"
            /\ sheet2_data[j]["b"].num > 0
            /\ sheet2_data[j]["Total Days"] = PyInt(0)

\* C6: once converted, every field of a record that holds a whole number
\* (int or numpy.int64) is a JSON integer literal of the same value, and
\* parsing it gives that number back
C6_IntegralFieldsAreJsonIntegers ==
    ~json_output.isNone =>
        \A i \in 1..Len(sheet2_data) : \A k \in Keys :
            sheet2_data[i][k].ty \in {"int", "numpy.int64"} =>
              /\ json_output.doc[i][k].j = "integer"
              /\ Loads(json_output.doc[i][k]).ty = "int"
              /\ Loads(json_output.doc[i][k]).num = sheet2_data[i][k].num

Printed(msg) == \E i \in 1..Len(stdout) : stdout[i] = msg

\* C7: when the input file is absent or the loader returned None, main is
\* over after a message: the write step is never reached, the output file
\* is neither opened nor written and no preview is printed
C7_NoWriteWithoutInput ==
    (~file_exists \/ loader \in {"FileNotFoundError", "Exception"}) =>
        /\ pc \in {"main", "done"}
        /\ pc = "done" => Len(stdout) >= 1
        /\ ~file_exists => loader = "not called"
        /\ loader # "not called" => pc = "done"
        /\ json_output.isNone
        /\ ~out_file.opened
        /\ out_file.written = "nothing"
        /\ ~preview.printed
        /\ ~Printed("First 3 records of Sheet2 data in JSON format:")
        /\ ~Printed("Sheet2 data saved to sheet2_data.json")

\* main is over after the loader returned None
C7_Witness ==
    /\ pc = "done"
    /\ file_exists
    /\ loader = "Exception"
    /\ Printed("Error reading Excel file")

\* C8: after the conversion the write step always leads to the preview
\* step, a failed write is reported, and when main is over the preview
\* holds the first records (three at most) of the converted data, in order
C8_PreviewAfterWriteFailure ==
    /\ pc # "raised"
    /\ pc \in {"preview", "done"} /\ ~json_output.isNone =>
          /\ out_file.written = "all" => Printed("Sheet2 data saved to sheet2_data.json")
          /\ out_file.written # "all" => Printed("Error saving JSON file")
    /\ pc = "done" /\ ~json_output.isNone =>
          /\ preview.printed
          /\ Len(preview.doc) = Min(3, Len(json_output.doc))
          /\ \A i \in 1..Len(preview.doc) : preview.doc[i] = json_output.doc[i]

\* main is over, the write failed and the preview shows three of four
\* records
C8_Witness ==
    /\ pc = "done"
    /\ out_file.written # "all"
    /\ Len(json_output.doc) = 4
    /\ preview.printed
    /\ Len(preview.doc) = 3

\* C9: gap = actual % - required %; the label has the positive glyph and a
\* '+' exactly when gap >= 0 and the negative glyph otherwise; plots
\* surveyed, Actual /day and actual % are 0, so gap = -(required %) and the
\* label is positive exactly when required % is 0
C9_GapLabelSign ==
    \A i \in 1..Len(sheet2_data) :
        LET loc == locals[i].loc
            label == sheet2_data[i]["Gap"].s
            positive == label[1] = PosGlyph /\ label[3] = "+"
        IN  /\ sheet2_data[i]["c"] = PyInt(0)
            /\ Zero(loc.actual_per_day)
            /\ Zero(loc.actual_percentage)
            /\ loc.gap.den # 0 /\ loc.required_percentage.den # 0
            /\ loc.gap.num * loc.required_percentage.den
                 = (0 - loc.required_percentage.num) * loc.gap.den
            /\ positive <=> loc.gap.num >= 0
            /\ ~positive <=> label[1] = NegGlyph
            /\ positive <=> loc.required_percentage.num = 0

\* a record behind schedule: positive required %, negative label
C9_Witness ==
    \E i \in 1..Len(sheet2_data) :
        /\ locals[i].loc.required_percentage.num > 0
        /\ sheet2_data[i]["Gap"].s[1] = NegGlyph
        /\ sheet2_data[i]["Gap"].s[2] = "-"

\* C10: Days Elapsed is never negative; when the end date is before the
\* start date, Total Days is the negative difference, Days Elapsed is 0
\* and Required /day and Required % are 0
C10_NegativeTotalDays ==
    \A i \in 1..Len(sheet2_data) :
        LET loc == locals[i].loc
            rec == sheet2_data[i]
        IN  /\ rec["Days Elapsed"].num >= 0
            /\ (Truthy(loc.start_date_parsed) /\ Truthy(loc.end_date_parsed)
                  /\ loc.end_date_parsed.num < loc.start_date_parsed.num) =>
                  /\ rec["Total Days"]
                       = PyInt(loc.end_date_parsed.num - loc.start_date_parsed.num)
                  /\ rec["Total Days"].num < 0
                  /\ rec["Days Elapsed"] = PyInt(0)
                  /\ rec["Days Elapsed"].num > rec["Total Days"].num
                  /\ Zero(rec["Required /day"])
                  /\ Zero(rec["Required % (Time elapsed)"])

\* a record with negative Total Days whose start date is already past
C10_Witness ==
    \E i \in 1..Len(sheet2_data) :
        /\ sheet2_data[i]["Total Days"].num < 0
        /\ current_date > locals[i].loc.start_date_parsed.num
        /\ sheet2_data[i]["b"].num > 0

====
